---- MODULE Spec2Model ----
(***************************************************************************)
(* pyhf: parameter bookkeeping (_ModelConfig), the nominal cube and the   *)
(* expected data (Model), and the Newton fit (tflow_optimizer).           *)
(*                                                                         *)
(* Four specifications share the module:                                   *)
(*   Spec       _ModelConfig.from_spec, one modifier definition per step,  *)
(*              then Model.finalized_stats and Model.logpdf                *)
(*   SpecCube   Model._make_cube and Model.expected_actualdata             *)
(*   SpecOrder  _ModelConfig.from_spec on a specification and on a         *)
(*              reordering of it                                           *)
(*   SpecFit    tflow_optimizer.unconstrained_bestfit/constrained_bestfit  *)
(***************************************************************************)
EXTENDS Integers, Sequences, FiniteSets, TLC

\* ------------------------------------------------------------------ bounds
\* modifier definitions walked by one from_spec call
MaxDefs == 3
\* bins of a sample (len(sample['data']))
MaxBins == 2
\* channels of a specification, samples of a channel
MaxChannels == 2
MaxSamples == 2
\* bins of a sample of the cube, and the largest nominal count of a bin
MaxCubeBins == 3
MaxCount == 2
\* modifier definitions of one sample of a whole specification
MaxSampleMods == 1
\* parameters of a fit (len(init_pars))
MaxPars == 3

\* ---------------------------------------------------------------- constants
\* `for i in range(1000)`
MaxIter == 1000
\* the tolerance 1e-4 of the break test; parameter values and updates are
\* counted in units of it
Tol == 1

\* ------------------------------------------------------------ name spaces
\* modifier names a specification may use
BaseNames == {"mu", "syst", "staterror_bkg"}

\* pyhf/modifiers: the registry of modifier classes, by type name, with the
\* class attributes pdf.py reads.  per_bin: n_parameters is len(nominal data)
\* (otherwise 1).
Registry ==
    [normfactor  |-> [is_shared |-> TRUE,  is_constrained |-> FALSE, pdf_type |-> "normal",  per_bin |-> FALSE],
     normsys     |-> [is_shared |-> TRUE,  is_constrained |-> TRUE,  pdf_type |-> "normal",  per_bin |-> FALSE],
     histosys    |-> [is_shared |-> TRUE,  is_constrained |-> TRUE,  pdf_type |-> "normal",  per_bin |-> FALSE],
     shapesys    |-> [is_shared |-> FALSE, is_constrained |-> TRUE,  pdf_type |-> "poisson", per_bin |-> TRUE],
     shapefactor |-> [is_shared |-> TRUE,  is_constrained |-> FALSE, pdf_type |-> "normal",  per_bin |-> TRUE],
     staterror   |-> [is_shared |-> TRUE,  is_constrained |-> TRUE,  pdf_type |-> "normal",  per_bin |-> TRUE]]

\* the type names a modifier definition may carry: the registered ones and
\* one that is not registered
TypeNames == DOMAIN Registry \cup {"unknown"}

\* a modifier name: <<qualifier, base>>; the qualifier is "" for a bare name
\* and the type for a name rewritten to "{type}/{name}"
BareName(base) == <<"", base>>

\* '{}/{}'.format(modifier_def['type'], modifier_def['name'])
FullName(type, name) == <<type, name[2]>>

\* -------------------------------------------------------------- sequences
RECURSIVE SumSeq(_)
SumSeq(s) == IF s = <<>> THEN 0 ELSE Head(s) + SumSeq(Tail(s))

RECURSIVE Flatten(_)
Flatten(ss) == IF ss = <<>> THEN <<>> ELSE Head(ss) \o Flatten(Tail(ss))

\* ---------------------------------------------------------------- modifier
\* modifier_cls(sample['data'], modifier_def['data']): a new modifier object.
\* id is the object's identity (the ordinal of its creation); its auxiliary
\* values and suggested initial values are written <<id, k>>, the k-th value
\* of object id.
NewModifier(type, nbins, id) ==
    LET cls == Registry[type]
        n   == IF cls.per_bin THEN nbins ELSE 1
    IN  [type           |-> type,
         id             |-> id,
         n_parameters   |-> n,
         is_constrained |-> cls.is_constrained,
         pdf_type       |-> cls.pdf_type,
         auxdata        |-> IF cls.is_constrained
                            THEN [k \in 1..n |-> <<id, k>>] ELSE <<>>,
         suggested_init |-> [k \in 1..n |-> <<id, k>>]]

\* ------------------------------------------------------------ _ModelConfig
\* _ModelConfig.__init__
NewConfig ==
    [par_map       |-> <<>>,
     par_order     |-> <<>>,
     auxdata       |-> <<>>,
     auxdata_order |-> <<>>,
     next_index    |-> 0,
     created       |-> <<>>,
     error         |-> "none"]

\* the shared-modifier test of add_or_get_modifier
UsesExisting(cfg, mdef) ==
    Registry[mdef.type].is_shared /\ mdef.name \in DOMAIN cfg.par_map

\* _ModelConfig.add_or_get_modifier(channel, sample, modifier_def) on the
\* configuration cfg; nbins is len(sample['data']).  created lists every
\* modifier object made so far.
AddOrGetModifier(cfg, nbins, mdef) ==
    IF mdef.type \notin DOMAIN Registry
    THEN [cfg EXCEPT !.error = "InvalidModifier"]
    ELSE IF UsesExisting(cfg, mdef)
    THEN IF cfg.par_map[mdef.name].modifier.type # mdef.type
         THEN [cfg EXCEPT !.error = "InvalidNameReuse"]
         ELSE cfg
    ELSE LET modifier == NewModifier(mdef.type, nbins, Len(cfg.created) + 1)
             npars    == modifier.n_parameters
             sl       == <<cfg.next_index, cfg.next_index + npars>>
             entry    == [slice |-> sl, modifier |-> modifier]
         IN  [cfg EXCEPT
                !.next_index    = cfg.next_index + npars,
                !.par_order     = Append(cfg.par_order, mdef.name),
                !.par_map       = (mdef.name :> entry) @@ cfg.par_map,
                !.auxdata       = IF modifier.is_constrained
                                  THEN cfg.auxdata \o modifier.auxdata
                                  ELSE cfg.auxdata,
                !.auxdata_order = IF modifier.is_constrained
                                  THEN Append(cfg.auxdata_order, mdef.name)
                                  ELSE cfg.auxdata_order,
                !.created       = Append(cfg.created, modifier)]

\* _ModelConfig.suggested_init
suggested_init(cfg) ==
    Flatten([i \in DOMAIN cfg.par_order |->
                cfg.par_map[cfg.par_order[i]].modifier.suggested_init])

\* _ModelConfig.par_slice
par_slice(cfg, name) == cfg.par_map[name].slice

\* _ModelConfig.set_poi: the error it ends with ("none": poi_index is set)
SetPoiError(cfg, mods, name) ==
    IF name \notin mods THEN "InvalidModel"
    ELSE LET s == par_slice(cfg, name)
         IN  IF s[2] - s[1] # 1 THEN "AssertionError" ELSE "none"

\* from_spec, the body of `for modifier_def in sample['modifiers']`, on the
\* walk state ws = [cfg, poiname, modifiers]: the name is qualified when
\* asked, the modifier added or found, and the name appended to modifiers.
WalkDef(ws, qualify, nbins, declared, type) ==
    LET fullname == FullName(type, declared)
        name     == IF qualify THEN fullname ELSE declared
        mdef     == [name |-> name, type |-> type]
        cfg      == AddOrGetModifier(ws.cfg, nbins, mdef)
    IN  [cfg       |-> cfg,
         poiname   |-> IF qualify /\ declared = ws.poiname
                       THEN fullname ELSE ws.poiname,
         modifiers |-> IF cfg.error = "none"
                       THEN ws.modifiers \cup {name} ELSE ws.modifiers,
         lastdef   |-> mdef]

\* -------------------------------------------------------------------- cube
\* a cell of a numpy float array: <<v>> holds the number v, <<>> is nan
Num(v) == <<v>>
NaN == <<>>
IsNaN(c) == c = NaN

\* float addition and multiplication: nan propagates
AddCell(a, b) == IF IsNaN(a) \/ IsNaN(b) THEN NaN ELSE Num(a[1] + b[1])
MulCell(a, b) == IF IsNaN(a) \/ IsNaN(b) THEN NaN ELSE Num(a[1] * b[1])

MaxOf(S) == CHOOSE m \in S : \A x \in S : x <= m

\* max(len(c['samples']) for c in channels)
MaxSamp(chs) == MaxOf({Len(chs[i]) : i \in DOMAIN chs})

\* every len(s['data']) of the specification
DataLens(chs) == UNION {{Len(chs[i][j]) : j \in DOMAIN chs[i]} : i \in DOMAIN chs}

\* max(len(s['data']) for c in channels for s in c['samples'])
MaxBinsOf(chs) == MaxOf(DataLens(chs))

\* cube[i,j,:] = s['data'] on a row of maxbins cells: numpy copies data of
\* that length, broadcasts data of length 1 to every cell, and raises
\* ValueError for any other length
RowFits(data, maxbins) == Len(data) = maxbins \/ Len(data) = 1

AssignRow(data, maxbins) ==
    [b \in 1..maxbins |-> Num(IF Len(data) = 1 THEN data[1] ELSE data[b])]

\* Model._make_cube: the cube, all nan first, then one row per sample
MakeCubeOf(chs) ==
    LET maxbins == MaxBinsOf(chs)
    IN  [i \in DOMAIN chs |->
            [j \in 1..MaxSamp(chs) |->
                IF j \in DOMAIN chs[i]
                THEN AssignRow(chs[i][j], maxbins)
                ELSE [b \in 1..maxbins |-> NaN]]]

\* Model._make_cube raises (numpy's ValueError) on some row
MakeCubeRaises(chs) ==
    \E i \in DOMAIN chs : \E j \in DOMAIN chs[i] :
        ~RowFits(chs[i][j], MaxBinsOf(chs))

\* Model._all_modifications when every factor contribution is 1 and every
\* delta contribution is 0: op_fields keeps its ones and zeros
FactorField(cb) == [i \in DOMAIN cb |-> [j \in DOMAIN cb[i] |->
                        [b \in DOMAIN cb[i][j] |-> Num(1)]]]
DeltaField(cb) == [i \in DOMAIN cb |-> [j \in DOMAIN cb[i] |->
                        [b \in DOMAIN cb[i][j] |-> Num(0)]]]

\* the non-nan cells of a channel's rows, summed
RECURSIVE SumCells(_)
SumCells(cells) ==
    IF cells = <<>> THEN 0
    ELSE (IF IsNaN(Head(cells)) THEN 0 ELSE Head(cells)[1]) + SumCells(Tail(cells))

\* Model.expected_actualdata at such parameters
ExpectedActualdata(cb) ==
    LET factor_field == FactorField(cb)
        delta_field  == DeltaField(cb)
        combined == [i \in DOMAIN cb |-> [j \in DOMAIN cb[i] |->
                        [b \in DOMAIN cb[i][j] |->
                            MulCell(factor_field[i][j][b],
                                    AddCell(delta_field[i][j][b], cb[i][j][b]))]]]
    IN  [i \in DOMAIN cb |-> SumCells(Flatten(combined[i]))]

\* ---------------------------------------------------------------- from_spec
\* the modifier definitions of a specification in the order from_spec's
\* three loops meet them, each with its sample's len(data)
DefsOfSample(sample) ==
    [k \in DOMAIN sample.mods |->
        [bins |-> sample.bins, name |-> sample.mods[k].name,
         type |-> sample.mods[k].type]]
DefsOfChannel(channel) ==
    Flatten([j \in DOMAIN channel |-> DefsOfSample(channel[j])])
DefsOf(spec) == Flatten([i \in DOMAIN spec |-> DefsOfChannel(spec[i])])

\* from_spec's loops over the definitions defs; an exception ends the walk
RECURSIVE WalkDefs(_, _, _)
WalkDefs(ws, qualify, defs) ==
    IF defs = <<>> \/ ws.cfg.error # "none" THEN ws
    ELSE WalkDefs(WalkDef(ws, qualify, Head(defs).bins,
                          BareName(Head(defs).name), Head(defs).type),
                  qualify, Tail(defs))

\* _ModelConfig.from_spec(spec, poiname, qualify_names): the exception it
\* ends with and the length of the parameter vector it laid out
FromSpec(spec, poi, qualify) ==
    LET ws == WalkDefs([cfg |-> NewConfig, poiname |-> BareName(poi),
                        modifiers |-> {}], qualify, DefsOf(spec))
    IN  IF ws.cfg.error # "none"
        THEN [error |-> ws.cfg.error, length |-> 0]
        ELSE [error  |-> SetPoiError(ws.cfg, ws.modifiers, ws.poiname),
              length |-> ws.cfg.next_index]

\* ------------------------------------------------------------------- Model
\* `'staterror' in k` for a par_map key k: the string "staterror" occurs in
\* the name, in its qualifier or in its base
StaterrorInName(k) == k[1] = "staterror" \/ k[2] = "staterror_bkg"

\* pyhf/modifiers: the classes whose objects carry the attributes
\* finalize_stats reads (uncertainties, nominal_counts)
HasUncertainties(type) == type = "staterror"

\* Model.__init__, the keys of the finalized_stats comprehension
FinalizedKeys(cfg) == {k \in DOMAIN cfg.par_map : StaterrorInName(k)}

\* the exception of that comprehension: finalize_stats reads
\* modifier.uncertainties of every modifier it is given
FinalizedStatsError(cfg) ==
    IF \E k \in FinalizedKeys(cfg) :
           ~HasUncertainties(cfg.par_map[k].modifier.type)
    THEN "AttributeError" ELSE "none"

Min(a, b) == IF a <= b THEN a ELSE b

\* seq[start:stop] of Python (indices from 0, clipped to the sequence)
PySlice(seq, start, stop) ==
    SubSeq(seq, Min(start, Len(seq)) + 1, Min(stop, Len(seq)))

\* pyhf/modifiers: int(modifier.alphas(pars[modslice]).shape[0]), one alpha
\* per parameter of the slice
AlphasWidth(modslice) == modslice[2] - modslice[1]

\* a width of constraint_logpdf: kind "unit" is astensor([1]), "finalized"
\* is self.finalized_stats[key], "none" is no width (poisson), "KeyError"
\* is the failed lookup of key, and "unbound" is kwargs left as the pass
\* before left it
Sigma(kind, key) == [kind |-> kind, key |-> key]

\* constraint_logpdf, the width chosen for one modifier
SigmaOf(modifier, cname, fstats) ==
    IF modifier.pdf_type = "normal"
    THEN IF modifier.type \in {"histosys", "normsys"}
         THEN Sigma("unit", BareName(""))
         ELSE IF modifier.type \in {"staterror"}
         THEN Sigma(IF cname \in fstats THEN "finalized" ELSE "KeyError", cname)
         ELSE Sigma("unbound", BareName(""))
    ELSE Sigma("none", BareName(""))

\* constraint_logpdf, the passes of `for cname in self.config.auxdata_order`
\* over the names left, from start_index: the callargs appended to bytype,
\* in order, each with the modifier and the slices it was made from.  A
\* KeyError ends the loop.
RECURSIVE ConstraintCallargs(_, _, _, _, _)
ConstraintCallargs(cfg, fstats, aux, names, start_index) ==
    IF names = <<>> THEN <<>>
    ELSE LET cname     == Head(names)
             modifier  == cfg.par_map[cname].modifier
             modslice  == par_slice(cfg, cname)
             end_index == start_index + AlphasWidth(modslice)
             sigma     == SigmaOf(modifier, cname, fstats)
             this      == [cname       |-> cname,
                           modifier    |-> modifier,
                           modslice    |-> modslice,
                           start_index |-> start_index,
                           end_index   |-> end_index,
                           thisauxdata |-> PySlice(aux, start_index, end_index),
                           sigma       |-> sigma]
         IN  IF sigma.kind = "KeyError" THEN <<this>>
             ELSE <<this>> \o ConstraintCallargs(cfg, fstats, aux, Tail(names),
                                                 end_index)

\* logpdf: data[cut:] with cut = len(data) - len(self.config.auxdata)
AuxPart(cfg, dat) == PySlice(dat, Len(dat) - Len(cfg.auxdata), Len(dat))

\* data: nactual actual observations followed by naux auxiliary ones, each
\* written with its kind and its ordinal
Observations(nactual, naux) ==
    [i \in 1..nactual |-> <<"actual", i>>] \o [i \in 1..naux |-> <<"aux", i>>]

\* --------------------------------------------------------------- optimizer
Abs(x) == IF x < 0 THEN -x ELSE x

\* np.max(up)
MaxComp(u) == MaxOf({u[k] : k \in DOMAIN u})

\* the break test of both Newton loops: np.abs(np.max(up)) < 1e-4
BreakTest(u) == Abs(MaxComp(u)) < Tol

\* best_fit - up, elementwise
Minus(v, u) == [k \in DOMAIN v |-> v[k] - u[k]]

\* [x for i,x in enumerate(init_pars) if i != poi_index] (poi_index from 0)
NuisOf(v, poi) ==
    [k \in 1..(Len(v) - 1) |-> IF k <= poi THEN v[k] ELSE v[k + 1]]

\* list.insert(index, x) for 0 <= index <= len(list)
InsertAt(lst, index, x) ==
    SubSeq(lst, 1, index) \o <<x>> \o SubSeq(lst, index + 1, Len(lst))

\* the graph's full parameter vector on the feed nuis_cat:
\* self.tb.concatenate([nuis_cat[:0], poi_par, nuis_cat[0:]])
pars(nuis_cat, poi_par) ==
    SubSeq(nuis_cat, 1, 0) \o poi_par \o SubSeq(nuis_cat, 1, Len(nuis_cat))

\* the return value with the POI put first whatever poi_index is, the way
\* the graph's parameter vector is put together
ConstrainedResultPoiFirst(nuis, poi, mu) == <<mu>> \o nuis

\* constrained_bestfit's return value: best_fit_nuis.tolist() with
\* constrained_mu inserted at pdf.config.poi_index
ConstrainedResult(nuis, poi, mu) == InsertAt(nuis, poi, mu)

\* the exception the except-handler itself ends with ("none": it only logs).
\* unconstrained_bestfit builds feed_dict={best_fit: best_fit}, whose key is
\* a list or an ndarray: unhashable, a TypeError.
HandlerError(fn) == IF fn = "unconstrained" THEN "TypeError" ELSE "none"

\* the exception of best_fit.tolist(): a list has no tolist
ToListError(kind) == IF kind = "ndarray" THEN "none" ELSE "AttributeError"

\* ------------------------------------------------------------------- state
VARIABLES
    \* _ModelConfig.from_spec
    pc,             \* "idle", "from_spec", "done" (from_spec returned), "model"
                    \* (Model built), "logpdf" (logpdf evaluated), "failed"
    error,          \* the exception from_spec ended with, or "none"
    qualify_names,  \* from_spec's argument
    poiname,        \* from_spec's argument, rewritten when names are qualified
    sample_bins,    \* len(sample['data']) of the sample being walked (0: none yet)
    ndefs,          \* modifier definitions walked so far
    lastdef,        \* the modifier definition of the last add_or_get_modifier call
    par_map, par_order, auxdata, auxdata_order, next_index, poi_index,
    created,        \* every modifier object made, in order
    modifiers,      \* the names appended to from_spec's modifiers list
    finalized_stats, \* the keys of Model.finalized_stats
    data,           \* logpdf's argument data
    aux_data,       \* logpdf's aux_data
    callargs,       \* constraint_logpdf's callargs, in the order appended
    \* Model._make_cube, Model.expected_actualdata
    cube_pc,        \* "idle", "init", "cube", "expected", "failed"
    channels,       \* spec['channels']: per channel, per sample, the data
    cube,           \* self.cube
    expected,       \* what expected_actualdata returned
    \* from_spec on a specification and on a reordering of it
    order_pc,       \* "idle", "init", "ran", "done"
    order_spec,     \* the specification
    order_perm,     \* the same channels and samples in another order
    order_qualify,  \* qualify_names of both calls
    order_res,      \* from_spec(order_spec)
    order_perm_res, \* from_spec(order_perm)
    \* tflow_optimizer.unconstrained_bestfit / constrained_bestfit
    fit_pc,         \* "idle", "loop", "handler", "return", "returned", "raised"
    fit_fn,         \* "unconstrained" or "constrained"
    init_pars,      \* the argument init_pars
    fit_poi,        \* pdf.config.poi_index (constrained fit)
    constrained_mu, \* the argument constrained_mu (constrained fit)
    best_fit,       \* best_fit (unconstrained), best_fit_nuis (constrained)
    best_kind,      \* its Python type: "list" or "ndarray"
    iter,           \* passes of the for loop completed
    up,             \* the last update evaluated (<<>>: none yet)
    left_by,        \* how the loop was left: "none", "break", "exhausted"
    fit_error,      \* the exception the call ended with, or "none"
    result          \* the returned list

configVars == <<pc, error, qualify_names, poiname, sample_bins, ndefs, lastdef,
                par_map, par_order, auxdata, auxdata_order, next_index,
                poi_index, created, modifiers, finalized_stats, data,
                aux_data, callargs>>
cubeVars == <<cube_pc, channels, cube, expected>>
orderVars == <<order_pc, order_spec, order_perm, order_qualify, order_res,
               order_perm_res>>

fitVars == <<fit_pc, fit_fn, init_pars, fit_poi, constrained_mu, best_fit,
             best_kind, iter, up, left_by, fit_error, result>>

vars == <<configVars, cubeVars, orderVars, fitVars>>

\* the _ModelConfig instance as a record
Config ==
    [par_map       |-> par_map,
     par_order     |-> par_order,
     auxdata       |-> auxdata,
     auxdata_order |-> auxdata_order,
     next_index    |-> next_index,
     created       |-> created,
     error         |-> "none"]

NoDef == [name |-> BareName(""), type |-> ""]

\* a fresh _ModelConfig, before from_spec's loops
ConfigStart(at) ==
    /\ pc = at
    /\ error = "none"
    /\ sample_bins = 0
    /\ ndefs = 0
    /\ lastdef = NoDef
    /\ par_map = NewConfig.par_map
    /\ par_order = NewConfig.par_order
    /\ auxdata = NewConfig.auxdata
    /\ auxdata_order = NewConfig.auxdata_order
    /\ next_index = NewConfig.next_index
    /\ created = NewConfig.created
    /\ poi_index = -1
    /\ modifiers = {}
    /\ finalized_stats = {}
    /\ data = <<>>
    /\ aux_data = <<>>
    /\ callargs = <<>>

ConfigIdle ==
    /\ ConfigStart("idle")
    /\ qualify_names = FALSE
    /\ poiname = BareName("mu")

CubeIdle ==
    /\ cube_pc = "idle"
    /\ channels = <<>>
    /\ cube = <<>>
    /\ expected = <<>>

NoResult == [error |-> "none", length |-> 0]

OrderIdle ==
    /\ order_pc = "idle"
    /\ order_spec = <<>>
    /\ order_perm = <<>>
    /\ order_qualify = FALSE
    /\ order_res = NoResult
    /\ order_perm_res = NoResult

FitIdle ==
    /\ fit_pc = "idle"
    /\ fit_fn = "unconstrained"
    /\ init_pars = <<>>
    /\ fit_poi = 0
    /\ constrained_mu = 0
    /\ best_fit = <<>>
    /\ best_kind = "list"
    /\ iter = 0
    /\ up = <<>>
    /\ left_by = "none"
    /\ fit_error = "none"
    /\ result = <<>>

InitConfig ==
    /\ ConfigStart("from_spec")
    /\ qualify_names \in BOOLEAN
    /\ poiname \in {BareName(b) : b \in BaseNames}

Init == InitConfig /\ CubeIdle /\ OrderIdle /\ FitIdle

\* from_spec: `for sample in channel['samples']` enters the next sample
NextSample ==
    /\ pc = "from_spec"
    /\ \E nbins \in 1..MaxBins : sample_bins' = nbins
    /\ UNCHANGED <<pc, error, qualify_names, poiname, ndefs, lastdef,
                   par_map, par_order, auxdata, auxdata_order, next_index,
                   poi_index, created, modifiers, finalized_stats, data,
                   aux_data, callargs>>
    /\ UNCHANGED <<cubeVars, orderVars, fitVars>>

\* from_spec: one pass of `for modifier_def in sample['modifiers']`
AddModifier ==
    /\ pc = "from_spec"
    /\ sample_bins > 0
    /\ ndefs < MaxDefs
    /\ \E base \in BaseNames, type \in TypeNames :
         LET ws == WalkDef([cfg |-> Config, poiname |-> poiname,
                            modifiers |-> modifiers],
                           qualify_names, sample_bins, BareName(base), type)
         IN  /\ poiname' = ws.poiname
             /\ lastdef' = ws.lastdef
             /\ ndefs' = ndefs + 1
             /\ par_map' = ws.cfg.par_map
             /\ par_order' = ws.cfg.par_order
             /\ auxdata' = ws.cfg.auxdata
             /\ auxdata_order' = ws.cfg.auxdata_order
             /\ next_index' = ws.cfg.next_index
             /\ created' = ws.cfg.created
             /\ error' = ws.cfg.error
             /\ pc' = IF ws.cfg.error = "none" THEN "from_spec" ELSE "failed"
             /\ modifiers' = ws.modifiers
    /\ UNCHANGED <<qualify_names, sample_bins, poi_index, finalized_stats,
                   data, aux_data, callargs>>
    /\ UNCHANGED <<cubeVars, orderVars, fitVars>>

\* from_spec: the loops are over; instance.set_poi(poiname)
SetPoi ==
    /\ pc = "from_spec"
    /\ LET e == SetPoiError(Config, modifiers, poiname)
       IN  /\ error' = e
           /\ pc' = IF e = "none" THEN "done" ELSE "failed"
           /\ poi_index' = IF e = "none" THEN par_slice(Config, poiname)[1]
                           ELSE poi_index
    /\ UNCHANGED <<qualify_names, poiname, sample_bins, ndefs, lastdef,
                   par_map, par_order, auxdata, auxdata_order, next_index,
                   created, modifiers, finalized_stats, data, aux_data,
                   callargs>>
    /\ UNCHANGED <<cubeVars, orderVars, fitVars>>

\* Model.__init__ after from_spec returned: self.finalized_stats = {...}
FinalizedStats ==
    /\ pc = "done"
    /\ LET e == FinalizedStatsError(Config)
       IN  /\ error' = e
           /\ pc' = IF e = "none" THEN "model" ELSE "failed"
           /\ finalized_stats' = IF e = "none" THEN FinalizedKeys(Config)
                                 ELSE finalized_stats
    /\ UNCHANGED <<qualify_names, poiname, sample_bins, ndefs, lastdef,
                   par_map, par_order, auxdata, auxdata_order, next_index,
                   poi_index, created, modifiers, data, aux_data, callargs>>
    /\ UNCHANGED <<cubeVars, orderVars, fitVars>>

\* Model.logpdf(pars, data) up to and including constraint_logpdf's loop
Logpdf ==
    /\ pc = "model"
    /\ \E nactual \in 1..MaxChannels :
         LET dat  == Observations(nactual, Len(auxdata))
             aux  == AuxPart(Config, dat)
             args == ConstraintCallargs(Config, finalized_stats, aux,
                                        auxdata_order, 0)
             e    == IF \E i \in DOMAIN args : args[i].sigma.kind = "KeyError"
                     THEN "KeyError" ELSE "none"
         IN  /\ data' = dat
             /\ aux_data' = aux
             /\ callargs' = args
             /\ error' = e
             /\ pc' = IF e = "none" THEN "logpdf" ELSE "failed"
    /\ UNCHANGED <<qualify_names, poiname, sample_bins, ndefs, lastdef,
                   par_map, par_order, auxdata, auxdata_order, next_index,
                   poi_index, created, modifiers, finalized_stats>>
    /\ UNCHANGED <<cubeVars, orderVars, fitVars>>

Next == NextSample \/ AddModifier \/ SetPoi \/ FinalizedStats \/ Logpdf

Spec == Init /\ [][Next]_vars

\* ---------------------------------------------------------------- SpecCube
\* the nominal data a sample may declare
SampleData == UNION {[1..n -> 1..MaxCount] : n \in 1..MaxCubeBins}
ChannelSamples == UNION {[1..k -> SampleData] : k \in 1..MaxSamples}
ChannelLists == UNION {[1..c -> ChannelSamples] : c \in 1..MaxChannels}

InitCube ==
    /\ cube_pc = "init"
    /\ channels \in ChannelLists
    /\ cube = <<>>
    /\ expected = <<>>
    /\ ConfigIdle
    /\ OrderIdle
    /\ FitIdle

\* Model.__init__: self.cube, self.hm = self._make_cube()
MakeCube ==
    /\ cube_pc = "init"
    /\ IF MakeCubeRaises(channels)
       THEN cube_pc' = "failed" /\ cube' = cube
       ELSE cube_pc' = "cube" /\ cube' = MakeCubeOf(channels)
    /\ UNCHANGED <<channels, expected, configVars, orderVars, fitVars>>

\* Model.expected_actualdata(pars), every factor 1 and every delta 0
ExpectedActual ==
    /\ cube_pc = "cube"
    /\ expected' = ExpectedActualdata(cube)
    /\ cube_pc' = "expected"
    /\ UNCHANGED <<channels, cube, configVars, orderVars, fitVars>>

NextCube == MakeCube \/ ExpectedActual

SpecCube == InitCube /\ [][NextCube]_vars

\* the declared nominal data of a channel, summed over samples and bins
NominalSum(ch) == SumSeq(Flatten(ch))

\* C8: with every factor 1 and every delta 0, expected_actualdata returns for
\* each channel the sum of the channel's declared nominal data over its
\* samples and bins.
C8_NominalSums ==
    cube_pc = "expected" =>
        \A i \in DOMAIN channels : expected[i] = NominalSum(channels[i])

\* --------------------------------------------------------------- SpecOrder
\* the names and types the whole specifications draw their modifiers from
OrderNames == {"mu", "syst"}
OrderTypes == {"normfactor", "shapesys", "staterror"}
OrderDefs == [name : OrderNames, type : OrderTypes]
OrderSamples ==
    [bins : 1..MaxBins,
     mods : UNION {[1..k -> OrderDefs] : k \in 0..MaxSampleMods}]
OrderChannels == UNION {[1..k -> OrderSamples] : k \in 1..MaxSamples}
OrderSpecs == UNION {[1..c -> OrderChannels] : c \in 1..MaxChannels}

\* the orders of a sequence
PermsOf(seq) ==
    {[i \in DOMAIN seq |-> seq[p[i]]] : p \in Permutations(DOMAIN seq)}

\* the specifications with spec's channels in any order and each channel's
\* samples in any order
RECURSIVE SamplesReordered(_)
SamplesReordered(cs) ==
    IF cs = <<>> THEN {<<>>}
    ELSE {<<c>> \o rest : c \in PermsOf(Head(cs)),
                          rest \in SamplesReordered(Tail(cs))}

Reorderings(spec) == UNION {SamplesReordered(cs) : cs \in PermsOf(spec)}

InitOrder ==
    /\ order_pc = "init"
    /\ order_spec \in OrderSpecs
    /\ order_perm \in Reorderings(order_spec)
    /\ order_qualify \in BOOLEAN
    /\ order_res = NoResult
    /\ order_perm_res = NoResult
    /\ ConfigIdle
    /\ CubeIdle
    /\ FitIdle

\* _ModelConfig.from_spec(spec, poiname='mu')
RunFromSpec ==
    /\ order_pc = "init"
    /\ order_res' = FromSpec(order_spec, "mu", order_qualify)
    /\ order_pc' = "ran"
    /\ UNCHANGED <<order_spec, order_perm, order_qualify, order_perm_res,
                   configVars, cubeVars, fitVars>>

\* _ModelConfig.from_spec on the reordered specification
RunReordered ==
    /\ order_pc = "ran"
    /\ order_perm_res' = FromSpec(order_perm, "mu", order_qualify)
    /\ order_pc' = "done"
    /\ UNCHANGED <<order_spec, order_perm, order_qualify, order_res,
                   configVars, cubeVars, fitVars>>

NextOrder == RunFromSpec \/ RunReordered

SpecOrder == InitOrder /\ [][NextOrder]_vars

\* C9: for a specification from_spec accepts, in the given order and in the
\* other order, the parameter vector has the same length in both orders.
C9_OrderInvariant ==
    (order_pc = "done" /\ order_res.error = "none"
                       /\ order_perm_res.error = "none")
        => order_res.length = order_perm_res.length

\* ------------------------------------------------------- claims under Spec
NoRepeat(s) == \A i, j \in DOMAIN s : s[i] = s[j] => i = j

\* the step is one add_or_get_modifier call whose definition reuses a name
\* that par_map already holds, with a registered type
ReusesName ==
    /\ pc = "from_spec"
    /\ ndefs' = ndefs + 1
    /\ lastdef'.type \in DOMAIN Registry
    /\ lastdef'.name \in DOMAIN par_map

\* C1: a modifier definition that reuses a name already declared allocates
\* nothing when it declares the same type as the first declaration (par_map,
\* par_order and next_index are unchanged and no error is raised), and fails
\* with InvalidNameReuse when it declares another type, whatever the types.
C1_NameReuse ==
    [][ReusesName =>
         IF par_map[lastdef'.name].modifier.type = lastdef'.type
         THEN /\ error' = "none"
              /\ next_index' = next_index
              /\ par_map' = par_map
              /\ par_order' = par_order
         ELSE error' = "InvalidNameReuse"]_vars

\* set_poi ran: from_spec returned, or ended with one of set_poi's errors
SetPoiRan == pc = "done" \/ error \in {"InvalidModel", "AssertionError"}

\* C2: once set_poi ran, it failed with InvalidModel when the POI name is
\* not a declared modifier name or its slice is not of width 1, and
\* otherwise poi_index is the start of that slice.
C2_SetPoi ==
    SetPoiRan =>
        IF poiname \notin modifiers
           \/ par_map[poiname].slice[2] - par_map[poiname].slice[1] # 1
        THEN error = "InvalidModel"
        ELSE error = "none" /\ poi_index = par_map[poiname].slice[1]

\* the slices of par_order's names, in par_order, tile [0, next_index)
Tiles ==
    /\ \A i \in DOMAIN par_order :
         par_map[par_order[i]].slice[1] =
             (IF i = 1 THEN 0 ELSE par_map[par_order[i - 1]].slice[2])
    /\ next_index = (IF par_order = <<>> THEN 0
                     ELSE par_map[par_order[Len(par_order)]].slice[2])

\* C3: after any sequence of add_or_get_modifier calls, no name is repeated
\* in par_order, the slices taken in par_order tile [0, next_index), and the
\* length of suggested_init() is next_index, the sum of n_parameters over
\* the modifier objects created.
C3_SlicesTile ==
    /\ NoRepeat(par_order)
    /\ Tiles
    /\ Len(suggested_init(Config)) = next_index
    /\ next_index = SumSeq([i \in DOMAIN created |-> created[i].n_parameters])

IsConstrainedName(name) == par_map[name].modifier.is_constrained

\* C4: after from_spec, auxdata_order is the subsequence of par_order of the
\* constrained names, each once; auxdata is the concatenation in
\* auxdata_order of those modifiers' auxiliary values; its length is the sum
\* of n_parameters over the constrained modifier objects.
C4_Auxdata ==
    pc = "done" =>
        /\ auxdata_order = SelectSeq(par_order, IsConstrainedName)
        /\ NoRepeat(auxdata_order)
        /\ auxdata = Flatten([i \in DOMAIN auxdata_order |->
                                par_map[auxdata_order[i]].modifier.auxdata])
        /\ Len(auxdata) =
              SumSeq([i \in DOMAIN created |->
                        IF created[i].is_constrained
                        THEN created[i].n_parameters ELSE 0])

IsConstrainedModifier(m) == m.is_constrained

\* the constrained modifier objects, in the order they were created
ConstrainedCreated == SelectSeq(created, IsConstrainedModifier)

\* the parameter slice allocated to the modifier object id when it was made
CreatedSlice(id) ==
    LET before == SumSeq([i \in 1..(id - 1) |-> created[i].n_parameters])
    IN  <<before, before + created[id].n_parameters>>

\* C12: once logpdf ran on data made of actual observations followed by the
\* auxiliary ones, aux_data is the last len(config.auxdata) entries of data,
\* and constraint_logpdf made one slice per constrained modifier object, in
\* the order of their creation: the slices are consecutive from 0 and end
\* at the end of aux_data, each holds the positions where config.auxdata
\* holds that modifier's own values, and each is paired with the parameter
\* slice allocated to that modifier.
C12_AuxSlices ==
    pc = "logpdf" =>
        /\ aux_data = SubSeq(data, Len(data) - Len(auxdata) + 1, Len(data))
        /\ Len(callargs) = Len(ConstrainedCreated)
        /\ \A i \in DOMAIN callargs :
             /\ callargs[i].modifier = ConstrainedCreated[i]
             /\ callargs[i].start_index =
                    (IF i = 1 THEN 0 ELSE callargs[i - 1].end_index)
             /\ SubSeq(auxdata, callargs[i].start_index + 1,
                       callargs[i].end_index) = ConstrainedCreated[i].auxdata
             /\ Len(callargs[i].thisauxdata) =
                    Len(ConstrainedCreated[i].auxdata)
             /\ callargs[i].modslice = CreatedSlice(ConstrainedCreated[i].id)
        /\ Len(aux_data) = (IF callargs = <<>> THEN 0
                            ELSE callargs[Len(callargs)].end_index)

\* the par_map names whose modifier is of type staterror
StaterrorNames == {k \in DOMAIN par_map : par_map[k].modifier.type = "staterror"}

\* C13: building the model and evaluating the constraint term fail on no
\* missing or unreadable width; the model holds a finalized width for
\* exactly the names whose modifier is of type staterror; and every normal
\* constraint term is given the unit width when its modifier is a histosys
\* or a normsys and its own name's finalized width when it is a staterror.
C13_Widths ==
    /\ error \notin {"AttributeError", "KeyError"}
    /\ pc \in {"model", "logpdf"} => finalized_stats = StaterrorNames
    /\ pc = "logpdf" =>
          \A i \in DOMAIN callargs :
              callargs[i].modifier.pdf_type = "normal" =>
                  callargs[i].sigma =
                      (IF callargs[i].modifier.type \in {"histosys", "normsys"}
                       THEN Sigma("unit", BareName(""))
                       ELSE Sigma("finalized", callargs[i].cname))

\* ----------------------------------------------------------------- SpecFit
\* parameter values, and the components of an update the backend evaluates
ParVals == {0, 1}
UpVals == {-1, 0, 1}
\* a fixed POI value that is no parameter value, so that its place shows
MuVals == {2}

\* the starting points: one per length, neighbours differing
InitPars == {[k \in 1..n |-> k % 2] : n \in 1..MaxPars}

InitFit ==
    /\ fit_pc = "loop"
    /\ fit_fn \in {"unconstrained", "constrained"}
    /\ init_pars \in InitPars
    /\ IF fit_fn = "constrained"
       THEN /\ Len(init_pars) >= 2
            /\ fit_poi \in 0..(Len(init_pars) - 1)
            /\ constrained_mu \in MuVals
            /\ best_fit = NuisOf(init_pars, fit_poi)
            /\ best_kind = "list"
       ELSE /\ fit_poi = 0
            /\ constrained_mu = 0
            /\ best_fit = init_pars
            /\ best_kind \in {"list", "ndarray"}
    /\ iter = 0
    /\ up = <<>>
    /\ left_by = "none"
    /\ fit_error = "none"
    /\ result = <<>>
    /\ ConfigIdle
    /\ CubeIdle
    /\ OrderIdle

\* one pass of the loop whose try body succeeds: the update is evaluated,
\* subtracted, and tested
Iterate ==
    /\ fit_pc = "loop"
    /\ iter < MaxIter
    /\ \E u \in [DOMAIN best_fit -> UpVals] :
         /\ Minus(best_fit, u) \in [DOMAIN best_fit -> ParVals]
         /\ up' = u
         /\ best_fit' = Minus(best_fit, u)
         /\ best_kind' = "ndarray"
         /\ iter' = iter + 1
         /\ IF BreakTest(u)
            THEN fit_pc' = "return" /\ left_by' = "break"
            ELSE fit_pc' = "loop" /\ left_by' = left_by
    /\ UNCHANGED <<fit_fn, init_pars, fit_poi, constrained_mu, fit_error, result>>
    /\ UNCHANGED <<configVars, cubeVars, orderVars>>

\* one pass of the loop whose session.run(update) raises InvalidArgumentError
IterateFails ==
    /\ fit_pc = "loop"
    /\ iter < MaxIter
    /\ fit_pc' = "handler"
    /\ UNCHANGED <<fit_fn, init_pars, fit_poi, constrained_mu, best_fit,
                   best_kind, iter, up, left_by, fit_error, result>>
    /\ UNCHANGED <<configVars, cubeVars, orderVars>>

\* the except InvalidArgumentError handler
Handler ==
    /\ fit_pc = "handler"
    /\ IF HandlerError(fit_fn) = "none"
       THEN fit_pc' = "loop" /\ iter' = iter + 1 /\ fit_error' = fit_error
       ELSE fit_pc' = "raised" /\ iter' = iter
            /\ fit_error' = HandlerError(fit_fn)
    /\ UNCHANGED <<fit_fn, init_pars, fit_poi, constrained_mu, best_fit,
                   best_kind, up, left_by, result>>
    /\ UNCHANGED <<configVars, cubeVars, orderVars>>

\* range(1000) is used up
LoopExhausted ==
    /\ fit_pc = "loop"
    /\ iter = MaxIter
    /\ fit_pc' = "return"
    /\ left_by' = "exhausted"
    /\ UNCHANGED <<fit_fn, init_pars, fit_poi, constrained_mu, best_fit,
                   best_kind, iter, up, fit_error, result>>
    /\ UNCHANGED <<configVars, cubeVars, orderVars>>

\* the statements after the loop
Return ==
    /\ fit_pc = "return"
    /\ IF ToListError(best_kind) = "none"
       THEN /\ fit_pc' = "returned"
            /\ fit_error' = fit_error
            /\ result' = IF fit_fn = "constrained"
                         THEN ConstrainedResult(best_fit, fit_poi, constrained_mu)
                         ELSE best_fit
       ELSE /\ fit_pc' = "raised"
            /\ fit_error' = ToListError(best_kind)
            /\ result' = result
    /\ UNCHANGED <<fit_fn, init_pars, fit_poi, constrained_mu, best_fit,
                   best_kind, iter, up, left_by>>
    /\ UNCHANGED <<configVars, cubeVars, orderVars>>

NextFit == Iterate \/ IterateFails \/ Handler \/ LoopExhausted \/ Return

SpecFit == InitFit /\ [][NextFit]_vars

\* C5: the loop is left by its break only when every component of the last
\* update is below the tolerance in absolute value.
C5_BreakBelowTol ==
    left_by = "break" => \A k \in DOMAIN up : Abs(up[k]) < Tol

\* lst without its element at index (from 0)
RemoveAt(lst, index) ==
    SubSeq(lst, 1, index) \o SubSeq(lst, index + 2, Len(lst))

\* C6: the vector constrained_bestfit returns is as long as init_pars, holds
\* constrained_mu at position poi_index and the fitted nuisance values at
\* the other positions, in their order.
C6_PoiSplicedBack ==
    (fit_pc = "returned" /\ fit_fn = "constrained") =>
        /\ Len(result) = Len(init_pars)
        /\ result[fit_poi + 1] = constrained_mu
        /\ RemoveAt(result, fit_poi) = best_fit

\* a constrained fit of three parameters returned with the POI in the middle
\* after an update moved a nuisance parameter
C6_Witness ==
    /\ fit_pc = "returned"
    /\ fit_fn = "constrained"
    /\ Len(init_pars) = 3
    /\ fit_poi = 1
    /\ best_fit # NuisOf(init_pars, fit_poi)
    /\ best_fit[1] # best_fit[2]

\* C7: a call makes at most 1000 passes and then returns a vector as long as
\* init_pars, however the loop ended; it does not end in an exception.
C7_AlwaysReturns ==
    /\ iter <= MaxIter
    /\ fit_pc # "raised"
    /\ fit_pc = "returned" => Len(result) = Len(init_pars)

\* the step is one session.run(update, feed_dict={nuis_cat: best_fit_nuis})
\* of the constrained fit
EvaluatesConstrained ==
    /\ fit_fn = "constrained"
    /\ fit_pc = "loop"
    /\ iter < MaxIter

\* C11: at every evaluation of the constrained fit, the parameter vector the
\* objective gets holds constrained_mu at position poi_index and the nuisance
\* values at the positions they have in init_pars, and the update has one
\* component per nuisance parameter and none for the POI.
C11_PoiInPlace ==
    [][EvaluatesConstrained =>
         /\ pars(best_fit, <<constrained_mu>>) =
                InsertAt(best_fit, fit_poi, constrained_mu)
         /\ (fit_pc' # "handler" => Len(up') = Len(init_pars) - 1)]_vars

\* C10: the handler of the invalid-argument failure raises nothing, leaves
\* the best-fit estimate as it was and goes on with the next pass.
C10_HandlerOnlyLogs ==
    [][fit_pc = "handler" =>
         /\ fit_pc' = "loop"
         /\ fit_error' = "none"
         /\ best_fit' = best_fit
         /\ iter' = iter + 1]_vars

====
